---- MODULE Spec2Model ----
(***************************************************************************)
(* One run of process_legal_query (app.py): the CRAG graph of              *)
(* workflow_builder.py, the hybrid pipelines of hybrid_legal_processor.py  *)
(* and the four-section synthesis, as a state machine.  Every awaited      *)
(* call (LLM, search backend) is one action whose outcome is drawn from a  *)
(* small set; texts are represented by their word counts, character        *)
(* counts and by the sequence of chunks they are assembled from.           *)
(***************************************************************************)
EXTENDS Integers, Sequences, FiniteSets, TLC

\* ---------------------------------------------------------------- bounds
MaxDocs == 1
MaxStreamWords == 7

\* ------------------------------------------------------ program constants
NODE_RETRIEVE == "retrieve_documents"
NODE_GRADE == "grade_documents"
NODE_TRANSFORM == "transform_query"
NODE_LEXML == "lexml_search"
NODE_EVALUATE == "evaluate_search_necessity"
NODE_WEB_SEARCH == "conditional_web_search"
NODE_SYNTHESIZE == "synthesize_response"
NODE_ERROR == "error_handler"
END == "__end__"

Nodes == {NODE_RETRIEVE, NODE_GRADE, NODE_TRANSFORM, NODE_LEXML,
          NODE_EVALUATE, NODE_WEB_SEARCH, NODE_SYNTHESIZE, NODE_ERROR}

\* Python values: None and the two booleans where a key may hold either
PyNone == "None"
PyTrue == "True"
PyFalse == "False"

\* an optional list: None or a list of items
NoneList == [none |-> TRUE, items |-> <<>>]
List(s) == [none |-> FALSE, items |-> s]
Truthy(l) == ~l.none /\ Len(l.items) > 0

\* the shortest content app.py keeps is 11 characters (len(content.strip()) > 10)
MinContentChars == 10
\* character counts of the document texts the vector store may return
DocLens == {5, 50}

RECURSIVE SeqsUpTo(_, _)
SeqsUpTo(S, n) ==
    IF n = 0 THEN {<<>>}
    ELSE LET shorter == SeqsUpTo(S, n - 1)
         IN  shorter \cup {Append(s, x) : s \in {t \in shorter : Len(t) = n - 1}, x \in S}

VARIABLES
    pc,            \* position of the run
    use_hybrid,    \* argument of process_legal_query
    state,         \* AgentState of the CRAG graph
    visited,       \* CRAG nodes executed, in order (one astream event each)
    graph,         \* "idle", "running", "ended" (reached END) or "raised"
    events,        \* stages of the events yielded by process_legal_query
    env,           \* what the collaborators did in this run
    syn,           \* the four-section synthesis in progress
    hp,            \* locals of the hybrid pipeline that is running
    app,           \* locals of process_legal_query
    rs,            \* locals of synthesize_response_streaming and its generators
    boot,          \* the API keys of the environment and what the imports built
    runs           \* the graph runs in flight when queries are processed concurrently

vars == <<pc, use_hybrid, state, visited, graph, events, env, syn, hp, app, rs, boot,
          runs>>

\* ------------------------------------------------------------ FinalResponse
\* A text is known by the chunks it is assembled from; what the validators
\* read of it (characters, sentences, words, distinct words) is drawn when
\* the text is validated.
TextStats(chars, sentences, words, unique) ==
    [chars |-> chars, sentences |-> sentences, words |-> words, unique |-> unique]

SummaryMinLength == 100
SummaryMaxLength == 15000
MinStrippedChars == 50
MinSentences == 2
MinWordsForDiversity == 10

\* FinalResponse.validate_summary_quality: TRUE when it returns the text
validate_summary_quality_lenient(t) == t.chars >= MinStrippedChars
validate_summary_quality(t) ==
    /\ t.sentences >= MinSentences
    /\ t.chars >= MinStrippedChars
    /\ (t.words < MinWordsForDiversity \/ 4 * t.unique >= t.words)

\* what an LLM may hand back: a text that passes the validators, one that is
\* long enough but a single sentence, one that is too short
GoodText == TextStats(1200, 12, 200, 120)
OneSentenceText == TextStats(250, 1, 40, 30)
ShortText == TextStats(90, 2, 12, 12)
LlmTexts == {GoodText, OneSentenceText, ShortText}

\* the fixed texts of the program
HcFailureText == TextStats(377, 4, 56, 49)
HyFailureText == TextStats(137, 3, 19, 17)
EmergencyText == TextStats(368, 4, 52, 46)
HandleErrorText == TextStats(40, 1, 6, 6)
TemplateText == TextStats(1598, 14, 220, 150)
BasicSynthesisText == TextStats(1400, 12, 190, 130)

NoResponse == [status |-> "None", summary |-> <<>>, warnings |-> <<>>,
               disclaimer |-> "None", query_id |-> "None", overall_confidence |-> 0]
ValidationError == [status |-> "ValidationError", summary |-> <<>>, warnings |-> <<>>,
                    disclaimer |-> "None", query_id |-> "None", overall_confidence |-> 0]
Missing == "missing"
DefaultDisclaimer == "default_disclaimer"

\* scores and confidences are counted in hundredths: Field(ge=0, le=1)
ScoreMax == 100
\* overall_confidence when the caller does not pass it
DefaultConfidence == 0

\* float(s) of the strings a parser may be handed; for any other string it
\* raises ValueError
FloatValue == ("0.5" :> 50) @@ ("1.5" :> 150)

\* the score a parser keeps when the text gives none: 0.8
DefaultParsedScore == 80

\* FinalResponse(...): query_id is required, overall_summary is bounded in
\* length and validated, overall_confidence is bounded; the result is the
\* object or a ValidationError
FinalResponse(query_id, summary, stats, status, overall_confidence, warnings, disclaimer) ==
    IF \/ query_id = Missing
       \/ stats.chars < SummaryMinLength
       \/ stats.chars > SummaryMaxLength
       \/ ~validate_summary_quality(stats)
       \/ overall_confidence < 0
       \/ overall_confidence > ScoreMax
    THEN ValidationError
    ELSE [status |-> status, summary |-> summary, warnings |-> warnings,
          disclaimer |-> disclaimer, query_id |-> query_id,
          overall_confidence |-> overall_confidence]

\* SimpleFinalResponse(...): only the length of overall_summary is checked
SimpleFinalResponseOk(stats) ==
    stats.chars >= SummaryMinLength /\ stats.chars <= SummaryMaxLength

IsResponse(r) == r.status \in {"completed", "failed"}

\* ---------------------------------------------------------------- AgentState
InitialState ==
    [query |-> "LegalQuery",
     current_query |-> "original",
     retrieved_docs |-> List(<<>>),
     tavily_results |-> NoneList,
     lexml_results |-> NoneList,
     needs_jurisprudencia |-> PyTrue,
     grade |-> PyNone,
     transformed_query |-> PyNone,
     needs_web_search |-> PyNone,
     web_search_reasoning |-> PyNone,
     web_search_query |-> PyNone,
     web_search_performed |-> PyNone,
     web_search_skipped |-> PyNone,
     web_search_error |-> PyNone,
     evaluation_complete |-> PyNone,
     final_response |-> NoResponse,
     error |-> PyNone]

\* an update that replaces the query although the rewrite failed
RewrittenUpdate == [current_query |-> "rewritten", transformed_query |-> "rewritten"]

\* the update of a node that returns {}
NoUpdate == [k \in {} |-> PyNone]

\* a merge that puts back to its initial value every key the node did not
\* return
MergeResetting(s, upd) ==
    [k \in DOMAIN s |-> IF k \in DOMAIN upd THEN upd[k] ELSE InitialState[k]]

\* LangGraph merges a node's partial update into the state, key by key
Merge(s, upd) == [k \in DOMAIN s |-> IF k \in DOMAIN upd THEN upd[k] ELSE s[k]]

\* what happened in this run: which collaborators raised, whether a node let
\* an exception out, whether the synthesis failed fatally
\* graderLine: the RELEVANCIA line of the text the grader LLM returned
\* ("none": a text without such a line, "unset": no text was returned);
\* transformFailed: the rewrite was not available or its call raised;
\* evalFallback: the evaluator fell back to its default decision;
\* webCalled: buscar_web was called
EnvInit == [vecRaised |-> FALSE, lexRaised |-> FALSE, webRaised |-> FALSE,
            llmRaised |-> FALSE, sinkRaised |-> FALSE, nodeRaised |-> PyNone,
            fatal |-> FALSE, graderLine |-> "unset", transformFailed |-> FALSE,
            evalFallback |-> FALSE, webCalled |-> FALSE]

Emit(stage) == events' = Append(events, stage)

\* no concurrent run is in flight
NoRuns == <<>>

\* -------------------------------------------------------------- CRAG nodes
\* a routing that sends every grade but relevant to the query rewrite
RouteOnlyRelevantToLexml(s) ==
    IF s.grade = "relevant" THEN NODE_LEXML ELSE NODE_TRANSFORM

route_after_grading(s) ==
    IF s.grade = "relevant" THEN NODE_LEXML
    ELSE IF s.grade = "irrelevant" THEN NODE_TRANSFORM
    ELSE NODE_LEXML

\* a rewrite that goes on to the evaluation
RouteTransformToEvaluate(s) == NODE_EVALUATE

\* a rewrite that goes back to the retrieval
RouteTransformToRetrieve(s) == NODE_RETRIEVE

route_after_transform(s) == NODE_LEXML

\* an evaluation that always leads to the web search
RouteAlwaysWebSearch(s) == NODE_WEB_SEARCH

\* an evaluation that never leads to the web search
RouteNeverWebSearch(s) == NODE_SYNTHESIZE

route_after_evaluation(s) ==
    IF s.needs_web_search = PyTrue THEN NODE_WEB_SEARCH ELSE NODE_SYNTHESIZE

\* the edges of build_graph: the node that runs after node n finished in state s
NextNode(n, s) ==
    CASE n = NODE_RETRIEVE -> NODE_GRADE
      [] n = NODE_GRADE -> route_after_grading(s)
      [] n = NODE_TRANSFORM -> route_after_transform(s)
      [] n = NODE_LEXML -> NODE_EVALUATE
      [] n = NODE_EVALUATE -> route_after_evaluation(s)
      [] n = NODE_WEB_SEARCH -> NODE_SYNTHESIZE
      [] n = NODE_SYNTHESIZE -> END
      [] n = NODE_ERROR -> END

\* the loop over astream stops after this many events
HybridEventCap == 15
PlainEventCap == 20
EventCap == IF use_hybrid THEN HybridEventCap ELSE PlainEventCap

\* a node returned upd: LangGraph merges it and astream hands {node: upd} to
\* process_legal_query, which yields a progress event, keeps the update
\* (plain mode: final_state = state_update) and leaves the loop at the cap
FinishNode(n, upd) ==
    LET s2 == Merge(state, upd)
        nxt == NextNode(n, s2)
        event_count == Len(visited)
    IN  /\ state' = s2
        /\ Emit("progress")
        /\ app' = [app EXCEPT !.final_state =
                      IF use_hybrid THEN @
                      ELSE IF "final_response" \in DOMAIN upd THEN upd.final_response
                      ELSE NoResponse]
        /\ IF nxt = END \/ event_count >= EventCap
           THEN /\ graph' = IF nxt = END THEN "ended" ELSE "abandoned"
                /\ pc' = "after_graph"
                /\ visited' = visited
           ELSE /\ graph' = graph
                /\ pc' = nxt
                /\ visited' = Append(visited, nxt)

\* an exception in the statements a node runs outside its try block leaves
\* the node, and astream raises it into process_legal_query
RaiseFromNode(n) ==
    /\ graph' = "raised"
    /\ env' = [env EXCEPT !.nodeRaised = n]
    /\ pc' = "except"
    /\ UNCHANGED <<state, visited, events, app>>

retrieve_documents ==
    /\ pc = NODE_RETRIEVE
    /\ \/ \* the embedding or the ChromaDB query raises: caught, empty list
          /\ env' = [env EXCEPT !.vecRaised = TRUE]
          /\ FinishNode(NODE_RETRIEVE, [retrieved_docs |-> List(<<>>)])
       \/ \E docs \in SeqsUpTo(DocLens, MaxDocs) :
          /\ env' = env
          /\ FinishNode(NODE_RETRIEVE, [retrieved_docs |-> List(docs)])
    /\ UNCHANGED <<rs, use_hybrid, runs, boot, syn, hp>>

\* what the grader LLM may answer: a RELEVANCIA line or not, and the words
\* the text contains otherwise
GraderTexts ==
    [line : {"relevant", "irrelevant", "needs_web_search", "none"},
     has_irrelevant : BOOLEAN, has_needs_web_search : BOOLEAN]

parse_grader_response(text) ==
    IF text.line # "none" THEN text.line
    ELSE IF text.has_irrelevant THEN "irrelevant"
    ELSE IF text.has_needs_web_search THEN "needs_web_search"
    ELSE "relevant"

\* a text with a RELEVANCIA: irrelevant line contains the word irrelevant, etc.
WellFormedGraderText(t) ==
    /\ t.line = "irrelevant" => t.has_irrelevant
    /\ t.line = "needs_web_search" => t.has_needs_web_search

grade_documents ==
    /\ pc = NODE_GRADE
    /\ \/ \* the module's grader_agent is None (its construction failed)
          /\ env' = env
          /\ FinishNode(NODE_GRADE, [grade |-> "relevant"])
       \/ /\ ~Truthy(state.retrieved_docs)
          /\ env' = env
          /\ FinishNode(NODE_GRADE, [grade |-> "irrelevant"])
       \/ /\ Truthy(state.retrieved_docs)
          /\ \/ \* grader_agent.run raises
                /\ env' = [env EXCEPT !.llmRaised = TRUE]
                /\ FinishNode(NODE_GRADE, [grade |-> "relevant"])
             \/ \E text \in {t \in GraderTexts : WellFormedGraderText(t)} :
                /\ env' = [env EXCEPT !.graderLine = text.line]
                /\ FinishNode(NODE_GRADE, [grade |-> parse_grader_response(text)])
    /\ UNCHANGED <<rs, use_hybrid, runs, boot, syn, hp>>

transform_query ==
    /\ pc = NODE_TRANSFORM
    /\ \/ \* the module's transformer_agent is None: empty update
          /\ env' = [env EXCEPT !.transformFailed = TRUE]
          /\ FinishNode(NODE_TRANSFORM, NoUpdate)
       \/ \* transformer_agent.run raises: empty update
          /\ env' = [env EXCEPT !.llmRaised = TRUE, !.transformFailed = TRUE]
          /\ FinishNode(NODE_TRANSFORM, NoUpdate)
       \/ /\ env' = env
          /\ FinishNode(NODE_TRANSFORM, [current_query |-> "rewritten",
                                         transformed_query |-> "rewritten"])
    /\ UNCHANGED <<rs, use_hybrid, runs, boot, syn, hp>>

search_jurisprudencia ==
    /\ pc = NODE_LEXML
    /\ \/ RaiseFromNode(NODE_LEXML)
       \/ /\ env' = [env EXCEPT !.lexRaised = TRUE]
          /\ FinishNode(NODE_LEXML, [lexml_results |-> List(<<>>),
                                     needs_jurisprudencia |-> PyFalse])
       \/ \E docs \in {<<>>, <<"lexml_doc">>} :
          /\ env' = env
          /\ FinishNode(NODE_LEXML, [lexml_results |-> List(docs),
                                     needs_jurisprudencia |-> PyFalse])
    /\ UNCHANGED <<rs, use_hybrid, runs, boot, syn, hp>>

\* a fallback that decides for the web search
EvaluationFallbackSearches == [needs_web_search |-> PyTrue, evaluation_complete |-> PyTrue]

\* what evaluate_search_necessity returns without a decision of the LLM
EvaluationFallback == [needs_web_search |-> PyFalse, evaluation_complete |-> PyTrue]

evaluate_search_necessity ==
    /\ pc = NODE_EVALUATE
    /\ IF state.query = PyNone
       THEN /\ env' = [env EXCEPT !.evalFallback = TRUE]
            /\ FinishNode(NODE_EVALUATE, EvaluationFallback)
       ELSE \/ RaiseFromNode(NODE_EVALUATE)
            \/ \* search_decision_agent.run raises
               /\ env' = [env EXCEPT !.llmRaised = TRUE, !.evalFallback = TRUE]
               /\ FinishNode(NODE_EVALUATE,
                             EvaluationFallback
                             @@ [web_search_reasoning |-> "evaluation_error"])
            \/ \E needs \in {PyTrue, PyFalse}, q \in {PyNone, "web_query"} :
               /\ env' = env
               /\ FinishNode(NODE_EVALUATE,
                             [needs_web_search |-> needs,
                              web_search_reasoning |-> "decision_reasoning",
                              web_search_query |-> IF needs = PyTrue THEN q ELSE PyNone,
                              evaluation_complete |-> PyTrue])
    /\ UNCHANGED <<rs, use_hybrid, runs, boot, syn, hp>>

search_web_conditional ==
    /\ pc = NODE_WEB_SEARCH
    /\ IF state.needs_web_search # PyTrue
       THEN /\ env' = env
            /\ FinishNode(NODE_WEB_SEARCH, [tavily_results |-> NoneList,
                                            web_search_skipped |-> PyTrue])
       ELSE \/ \* no Tavily client configured
               /\ env' = env
               /\ FinishNode(NODE_WEB_SEARCH, [tavily_results |-> NoneList,
                                               web_search_error |-> "no_api_key"])
            \/ \* buscar_web raises
               /\ env' = [env EXCEPT !.webRaised = TRUE, !.webCalled = TRUE]
               /\ FinishNode(NODE_WEB_SEARCH, [tavily_results |-> NoneList,
                                               web_search_error |-> "exception"])
            \/ \E res \in {<<>>, <<"web_result">>} :
               /\ env' = [env EXCEPT !.webCalled = TRUE]
               /\ FinishNode(NODE_WEB_SEARCH, [tavily_results |-> List(res),
                                               web_search_performed |-> PyTrue])
    /\ UNCHANGED <<rs, use_hybrid, runs, boot, syn, hp>>

\* ------------------------------------------------ four-section synthesis
\* the sections with the first two generated in the other order
SectionsDevFirst == <<"dev", "intro", "analysis", "conclusion">>

\* the sections in the order they are generated
Sections == <<"intro", "dev", "analysis", "conclusion">>

\* word floors of synthesize_with_openrouter_4_parts
IntroFloor == 200
DevFloor == 400
AnalysisFloor == 400
ConclusionFloor == 250
\* word floors of synthesize_with_openrouter_streaming
IntroFloorStreaming == 150
DevFloorStreaming == 250
AnalysisFloorStreaming == 300
ConclusionFloorStreaming == 200

Floor(mode, sec) ==
    IF mode = "streaming"
    THEN <<IntroFloorStreaming, DevFloorStreaming, AnalysisFloorStreaming,
           ConclusionFloorStreaming>>[sec]
    ELSE <<IntroFloor, DevFloor, AnalysisFloor, ConclusionFloor>>[sec]

\* an expansion also for a text exactly at the floor
NeedsExpansionAtFloor(mode, sec, word_count) == word_count <= Floor(mode, sec)

\* if <section>_word_count < floor: one expansion call
NeedsExpansion(mode, sec, word_count) == word_count < Floor(mode, sec)

\* the single-call synthesis is returned only with this many characters
MinFallbackChars == 200
\* a single-call text accepted whatever its length
AcceptAnySingle(chars) == chars > 0

AcceptSingle(chars) == chars > 0 /\ chars >= MinFallbackChars

\* characters of the literal parts of the four-section text and of the template
FourPartHeaderChars == 77
TemplateFixedChars == 1598

\* sec: the section last worked on; first: word count of its first generation;
\* words: word count of its text now; calls: LLM calls of the four-section
\* pass; secCalls: those spent on section sec; raised: a call of the pass
\* raised; fallbackCalls: single-call syntheses; single: what the single call
\* did ("none", "raised", "returned") and single_chars the length it returned;
\* result and chars: what the synthesis returned
SynIdle == [mode |-> "none", sec |-> 0, phase |-> "idle", first |-> 0, words |-> 0,
            calls |-> 0, secCalls |-> 0, raised |-> FALSE, fallbackCalls |-> 0,
            single |-> "none", single_chars |-> 0,
            result |-> "none", chars |-> 0]
SynStart(mode) == [SynIdle EXCEPT !.mode = mode, !.phase = "start"]

\* decision: the parsed SearchDecision; groq: the call made by
\* execute_groq_searches and the GroqSearchResult it returned; returned: the
\* searches of the pipeline that have returned, in order; text: response_text
\* or full_response_text, as the chunks it is made of; streamed: the payloads
\* of the ("streaming", chunk) steps the generator has yielded; validator and
\* assessment: how the validator call ended and the QualityAssessment
\* returned; check: how the guardrail call ended and the GuardrailCheck
\* returned; built: FinalResponse(...) took the text; stats: what was read of
\* the summary of response, the FinalResponse that
\* process_legal_query_hybrid_corrected returns
HpInit == [decision_text |-> [vectordb |-> "unset", lexml |-> "unset", web |-> "unset",
                              jurisprudencia |-> "unset", confianca |-> "unset"],
           decision |-> [made |-> FALSE, needs_vectordb |-> TRUE, needs_lexml |-> TRUE,
                         needs_web |-> TRUE, needs_jurisprudence |-> TRUE,
                         confidence |-> 0],
           groq |-> [outcome |-> "none", calls |-> 0, waited |-> 0,
                     total_sources |-> 0, summary |-> "none"],
           returned |-> <<>>, text |-> <<>>, streamed |-> <<>>,
           validator |-> "none",
           assessment |-> [overall_score |-> 0, completeness |-> 0,
                           needs_improvement |-> FALSE,
                           improvement_suggestions |-> <<>>,
                           needs_human_review |-> FALSE],
           check |-> [call |-> "none", passed |-> TRUE, violations |-> <<>>],
           built |-> FALSE,
           stats |-> TextStats(0, 0, 0, 0),
           response |-> NoResponse]

InSynthesis == pc \in {"hc_synthesize", "hy_synthesize"}

\* the loop of process_legal_query over the steps of the hybrid generator:
\* what it yields for a step that is neither final nor error
ForwardStep(step_type) ==
    IF step_type = "progress" THEN <<"progress">> ELSE <<>>

\* the section's text is final: the streaming generator yields the chunk, the
\* hybrid generator appends it to full_response_text and yields it on as a
\* ("streaming", chunk) step to process_legal_query; after the last section
\* the four-section text is returned
SectionDone(s) ==
    LET last == s.sec = Len(Sections)
    IN  /\ syn' = IF last
                  THEN [s EXCEPT !.phase = "done", !.result = "four_part",
                                 !.chars = FourPartHeaderChars]
                  ELSE [s EXCEPT !.phase = "complete"]
        /\ IF s.mode = "streaming"
           THEN /\ hp' = [hp EXCEPT !.text = Append(@, Sections[s.sec]),
                                   !.streamed = Append(@, Sections[s.sec])]
                /\ events' = events \o ForwardStep("streaming")
                /\ pc' = IF last THEN "hy_validate" ELSE pc
           ELSE /\ hp' = IF last THEN [hp EXCEPT !.text = Sections] ELSE hp
                /\ events' = events
                /\ pc' = IF last THEN "hc_validate" ELSE pc

\* an LLM call of the four-section pass raised: the non-streaming function
\* goes to synthesize_with_openrouter_fallback, the streaming one yields the
\* error message as one more chunk and ends
SectionRaised(s) ==
    IF s.mode = "streaming"
    THEN /\ syn' = [s EXCEPT !.phase = "done", !.raised = TRUE, !.result = "error_chunk"]
         /\ hp' = [hp EXCEPT !.text = Append(@, "synthesis_error"),
                                !.streamed = Append(@, "synthesis_error")]
         /\ events' = events \o ForwardStep("streaming")
         /\ pc' = "hy_validate"
    ELSE /\ syn' = [s EXCEPT !.phase = "fallback", !.raised = TRUE]
         /\ UNCHANGED <<hp, pc, events>>

\* first generation of the next section
SectionCall ==
    /\ InSynthesis
    /\ syn.phase \in {"start", "complete"}
    /\ LET sec == syn.sec + 1
           called == [syn EXCEPT !.sec = sec, !.calls = @ + 1, !.secCalls = 1]
       IN  \/ /\ env' = [env EXCEPT !.llmRaised = TRUE]
              /\ SectionRaised([called EXCEPT !.first = 0, !.words = 0])
           \/ \E w \in {Floor(syn.mode, sec) - 1, Floor(syn.mode, sec)} :
              /\ env' = env
              /\ IF NeedsExpansion(syn.mode, sec, w)
                 THEN /\ syn' = [called EXCEPT !.first = w, !.words = w, !.phase = "expand"]
                      /\ UNCHANGED <<hp, pc, events>>
                 ELSE SectionDone([called EXCEPT !.first = w, !.words = w])
    /\ UNCHANGED <<rs, use_hybrid, runs, boot, state, visited, graph, app>>

\* the expansion call: its output replaces the section, whatever its length
ExpansionCall ==
    /\ InSynthesis
    /\ syn.phase = "expand"
    /\ LET called == [syn EXCEPT !.calls = @ + 1, !.secCalls = @ + 1]
       IN  \/ /\ env' = [env EXCEPT !.llmRaised = TRUE]
              /\ SectionRaised(called)
           \/ \E w \in {0, Floor(syn.mode, syn.sec)} :
              /\ env' = env
              /\ SectionDone([called EXCEPT !.words = w])
    /\ UNCHANGED <<rs, use_hybrid, runs, boot, state, visited, graph, app>>

\* synthesize_with_openrouter_fallback: one call; its text if long enough,
\* else (or if the call raises) create_fallback_response
FallbackCall ==
    /\ pc = "hc_synthesize"
    /\ syn.phase = "fallback"
    /\ \/ /\ env' = [env EXCEPT !.llmRaised = TRUE]
          /\ syn' = [syn EXCEPT !.phase = "done", !.fallbackCalls = @ + 1,
                                !.single = "raised",
                                !.result = "template", !.chars = TemplateFixedChars]
          /\ hp' = [hp EXCEPT !.text = <<"template">>]
       \/ \E chars \in {0, MinFallbackChars - 1, MinFallbackChars} :
          /\ env' = env
          /\ IF AcceptSingle(chars)
             THEN /\ syn' = [syn EXCEPT !.phase = "done", !.fallbackCalls = @ + 1,
                                        !.single = "returned", !.single_chars = chars,
                                        !.result = "single", !.chars = chars]
                  /\ hp' = [hp EXCEPT !.text = <<"single">>]
             ELSE /\ syn' = [syn EXCEPT !.phase = "done", !.fallbackCalls = @ + 1,
                                        !.single = "returned", !.single_chars = chars,
                                        !.result = "template", !.chars = TemplateFixedChars]
                  /\ hp' = [hp EXCEPT !.text = <<"template">>]
    /\ pc' = "hc_validate"
    /\ UNCHANGED <<rs, use_hybrid, runs, boot, state, visited, graph, events, app>>

\* ------------------------------------------------ synthesize_response node
QueryId == "query_id"

\* what the validators may read of a text made of these chunks
SummaryStats(text) ==
    IF text = <<"template">> THEN {TemplateText}
    ELSE IF text = <<"single">> THEN {t \in LlmTexts : AcceptSingle(t.chars)}
    ELSE LlmTexts

\* warnings of the pipelines' FinalResponse: the improvement suggestions when
\* needs_improvement, then one entry per guardrail violation when not passed
Warnings(quality_assessment, guardrail_check) ==
    (IF quality_assessment.needs_improvement
     THEN quality_assessment.improvement_suggestions ELSE <<>>)
    \o (IF ~guardrail_check.passed THEN guardrail_check.violations ELSE <<>>)

\* status of the FinalResponse the pipelines build after the two checks
StatusFromGuardrails(quality_assessment, guardrail_check) ==
    IF guardrail_check.passed THEN "completed" ELSE "failed"
PipelineStatus(quality_assessment, guardrail_check) == "completed"

EmptyDisclaimer == ""
HybridDisclaimer == "Esta resposta foi gerada por sistema de IA integrado"

\* FinalResponse(query_id, overall_summary, status=COMPLETED,
\* overall_confidence=quality_assessment.overall_score, warnings, disclaimer)
PipelineResponse(text, stats, quality_assessment, guardrail_check) ==
    FinalResponse(QueryId, text, stats,
                  PipelineStatus(quality_assessment, guardrail_check),
                  quality_assessment.overall_score,
                  Warnings(quality_assessment, guardrail_check), HybridDisclaimer)

\* synthesize_response once llm_response is known: FinalResponse(query_id,
\* overall_summary, disclaimer), status and warnings left to their defaults;
\* if that raises, the emergency response, built the same way, and "error"
NodeReturn(summary, stats, disclaimer, envNow) ==
    LET final_response ==
            FinalResponse(QueryId, summary, stats, "completed", DefaultConfidence, <<>>,
                          disclaimer)
        emergency_response ==
            FinalResponse(QueryId, <<"emergency">>, EmergencyText, "completed",
                          DefaultConfidence, <<>>,
                          "emergency_disclaimer")
    IN  IF IsResponse(final_response)
        THEN /\ env' = envNow
             /\ FinishNode(NODE_SYNTHESIZE, [final_response |-> final_response])
        ELSE /\ env' = [envNow EXCEPT !.fatal = TRUE]
             /\ FinishNode(NODE_SYNTHESIZE, [error |-> "exception",
                                             final_response |-> emergency_response])

\* synthesize_with_hybrid_corrected_approach after the pipeline returned: the
\* FinalResponse is converted to SimpleFinalResponse(overall_summary,
\* disclaimer), which carries neither status nor warnings
HcReturn(final_response, stats, envNow) ==
    /\ hp' = HpInit
    /\ NodeReturn(final_response.summary, stats, final_response.disclaimer, envNow)

\* process_legal_query_hybrid_corrected returns final_response
HcFinish(hpNow, final_response, stats, envNow) ==
    /\ hp' = [hpNow EXCEPT !.response = final_response, !.stats = stats]
    /\ env' = envNow
    /\ pc' = "hc_return"
    /\ UNCHANGED <<state, visited, graph, events, app>>

\* the except block of process_legal_query_hybrid_corrected
HcExcept(hpNow, envNow) ==
    HcFinish(hpNow,
             FinalResponse(QueryId, <<"hybrid_failure">>, HcFailureText, "failed",
                           DefaultConfidence,
                           <<"Falha no sistema hibrido OpenRouter + Groq">>,
                           "Sistema indisponivel. Tente novamente mais tarde."),
             HcFailureText, [envNow EXCEPT !.fatal = TRUE])

synthesize_with_hybrid_corrected_approach ==
    /\ pc = "hc_return"
    /\ HcReturn(hp.response, hp.stats, env)
    /\ UNCHANGED <<rs, use_hybrid, runs, boot, syn>>

\* entry of the node and of synthesize_with_hybrid_corrected_approach:
\* LegalQuery(text=cleaned_query) raises when the cleaned text is too short
synthesize_response ==
    /\ pc = NODE_SYNTHESIZE
    /\ \/ /\ RaiseFromNode(NODE_SYNTHESIZE)
          /\ hp' = hp
       \/ /\ pc' = "hc_decision"
          /\ hp' = HpInit
          /\ app' = [app EXCEPT !.pipeline_runs = @ + 1]
          /\ UNCHANGED <<state, visited, graph, events, env>>
       \/ /\ pc' = "simulation_fallback"
          /\ hp' = HpInit
          /\ UNCHANGED <<state, visited, graph, events, env, app>>
    /\ UNCHANGED <<rs, use_hybrid, runs, boot, syn>>

\* the LLM calls of the simulation: their text if SimpleFinalResponse takes
\* it, else (or if a call raises) the fixed basic synthesis
synthesize_with_hybrid_simulation_fallback ==
    /\ pc = "simulation_fallback"
    /\ \/ NodeReturn(<<"basic_synthesis">>, BasicSynthesisText, "basic_disclaimer",
                     [env EXCEPT !.llmRaised = TRUE])
       \/ \E t \in LlmTexts :
          IF SimpleFinalResponseOk(t)
          THEN NodeReturn(<<"simulation">>, t, "simulation_disclaimer", env)
          ELSE NodeReturn(<<"basic_synthesis">>, BasicSynthesisText, "basic_disclaimer", env)
    /\ UNCHANGED <<rs, use_hybrid, runs, boot, syn, hp>>

\* ------------------------------ process_legal_query_hybrid_corrected
\* the answer of search_decision_agent: what follows VECTORDB:, LEXML:, WEB:,
\* JURISPRUDENCIA: and CONFIANCA: in it ("absent": no such label; "." is
\* taken by [0-9.]+ and refused by float)
DecisionTexts ==
    [vectordb : {"SIM", "NAO", "TALVEZ", "absent"},
     lexml : {"SIM", "NAO", "TALVEZ", "absent"},
     web : {"SIM", "NAO", "TALVEZ", "absent"},
     jurisprudencia : {"SIM", "NAO", "TALVEZ", "absent"},
     confianca : {"0.5", "1.5", ".", "absent"}]

\* the answers drawn when the whole pipeline runs
PipelineDecisionTexts ==
    {[vectordb |-> v, lexml |-> v, web |-> v, jurisprudencia |-> v,
      confianca |-> "absent"] : v \in {"absent", "NAO"}}

\* re.search(r'LABEL:\s*(SIM|NAO)'): on a match the flag is
\* group(1).upper() == 'SIM', else it keeps its default, True
ParseFlagStrict(value) == value = "SIM"
ParseFlag(value) ==
    IF value \in {"SIM", "NAO"} THEN value = "SIM" ELSE TRUE

\* confidence: 0.8 unless CONFIANCA: is followed by a number, which is
\* brought into 0..1 by max(0.0, min(1.0, confidence))
ParseConfidence(value) ==
    IF value \in DOMAIN FloatValue
    THEN (IF FloatValue[value] > ScoreMax THEN ScoreMax
          ELSE IF FloatValue[value] < 0 THEN 0 ELSE FloatValue[value])
    ELSE DefaultParsedScore

parse_decision_response(text) ==
    [made |-> TRUE,
     needs_vectordb |-> ParseFlag(text.vectordb),
     needs_lexml |-> ParseFlag(text.lexml),
     needs_web |-> ParseFlag(text.web),
     needs_jurisprudence |-> ParseFlag(text.jurisprudencia),
     confidence |-> ParseConfidence(text.confianca)]

search_decision ==
    /\ pc = "hc_decision"
    /\ \/ HcExcept(hp, [env EXCEPT !.llmRaised = TRUE])
       \/ \E decision_text \in PipelineDecisionTexts :
          /\ hp' = [hp EXCEPT !.decision_text = decision_text,
                              !.decision = parse_decision_response(decision_text)]
          /\ pc' = "hc_vectordb"
          /\ UNCHANGED <<state, visited, graph, events, env, app>>
    /\ UNCHANGED <<rs, use_hybrid, runs, boot, syn>>

\* never raises: a failing search returns the default result
execute_vectordb_search_openrouter ==
    /\ pc = "hc_vectordb"
    /\ hp' = [hp EXCEPT !.returned = Append(@, "vectordb")]
    /\ pc' = "hc_groq"
    /\ UNCHANGED <<rs, use_hybrid, runs, boot, state, visited, graph, events, env, syn, app>>

\* asyncio.wait_for(groq_search_agent.run(...), timeout=10.0), in seconds
GroqTimeout == 10

\* the GroqSearchResult of each way the call may end
GroqParsedResult == [total_sources |-> 20, summary |-> "groq_text"]
GroqTimeoutResult ==
    [total_sources |-> 10, summary |-> "Buscas Groq com timeout - usando fallback"]
GroqErrorResultAsParsed == [total_sources |-> 20, summary |-> "Erro nas buscas Groq"]
GroqErrorResult == [total_sources |-> 0, summary |-> "Erro nas buscas Groq"]

\* shared by both pipelines; the integrated one yields a progress step
\* first. One call of the agent: it returns or raises before the timeout, or
\* the timeout fires; the function returns a GroqSearchResult in all three
execute_groq_searches ==
    /\ pc \in {"hc_groq", "hy_groq"}
    /\ \E outcome \in {"returned", "timeout", "raised"} :
       LET waited == IF outcome = "timeout" THEN GroqTimeout ELSE GroqTimeout - 1
           result == IF outcome = "returned" THEN GroqParsedResult
                     ELSE IF outcome = "timeout" THEN GroqTimeoutResult
                     ELSE GroqErrorResult
       IN  hp' = [hp EXCEPT !.groq = [outcome |-> outcome, calls |-> hp.groq.calls + 1,
                                      waited |-> waited,
                                      total_sources |-> result.total_sources,
                                      summary |-> result.summary],
                            !.returned = Append(@, "groq")]
    /\ pc' = IF pc = "hc_groq" THEN "hc_analyze" ELSE "hy_analyze"
    /\ events' = IF pc = "hy_groq" THEN Append(events, "progress") ELSE events
    /\ UNCHANGED <<rs, use_hybrid, runs, boot, state, visited, graph, env, syn, app>>

analyze_with_openrouter ==
    /\ pc = "hc_analyze"
    /\ \/ /\ HcExcept(hp, [env EXCEPT !.llmRaised = TRUE])
          /\ syn' = syn
       \/ /\ pc' = "hc_synthesize"
          /\ syn' = SynStart("four_parts")
          /\ hp' = [hp EXCEPT !.groq = HpInit.groq, !.decision = HpInit.decision,
                              !.decision_text = HpInit.decision_text]
          /\ UNCHANGED <<state, visited, graph, events, env, app>>
    /\ UNCHANGED <<rs, use_hybrid, runs, boot>>

\* what the validator may answer: the value after SCORE_GERAL:, after
\* COMPLETUDE:, after PRECISA_MELHORIA: and after PRECISA_REVISAO_HUMANA:
\* ("absent": no such line), and the lines that start with "- "
ValidatorTexts ==
    {[score |-> "alta", completeness |-> "absent", improve |-> "absent",
      review |-> "absent", suggestions |-> <<>>],
     [score |-> "0.5", completeness |-> "0.5", improve |-> "SIM",
      review |-> "SIM", suggestions |-> <<"improvement_suggestion">>],
     [score |-> "1.5", completeness |-> "0.5", improve |-> "SIM",
      review |-> "SIM", suggestions |-> <<"improvement_suggestion">>]}

\* a score line: float(...) of its value, the default kept when that raises
ParseScore(value) ==
    IF value \in DOMAIN FloatValue THEN FloatValue[value] ELSE DefaultParsedScore

\* QualityAssessment(...) validates: every score within 0..1
QualityAssessmentOk(quality_assessment) ==
    /\ quality_assessment.overall_score >= 0
    /\ quality_assessment.overall_score <= ScoreMax
    /\ quality_assessment.completeness >= 0
    /\ quality_assessment.completeness <= ScoreMax

\* the assessment returned by the except block
DefaultAssessmentNeedsReview ==
    [overall_score |-> 75, completeness |-> 80, needs_improvement |-> FALSE,
     improvement_suggestions |-> <<"Validacao automatica falhou">>,
     needs_human_review |-> TRUE]
DefaultAssessment ==
    [overall_score |-> 75, completeness |-> 80, needs_improvement |-> FALSE,
     improvement_suggestions |-> <<"Validacao automatica falhou">>,
     needs_human_review |-> FALSE]

\* shared by both pipelines; never raises: a failing call, or scores that
\* QualityAssessment refuses, give the default assessment
validate_with_openrouter ==
    /\ pc \in {"hc_validate", "hy_validate"}
    /\ \/ /\ env' = [env EXCEPT !.llmRaised = TRUE]
          /\ hp' = [hp EXCEPT !.validator = "raised", !.assessment = DefaultAssessment]
       \/ \E response_text_val \in ValidatorTexts :
          LET assessment ==
                  [overall_score |-> ParseScore(response_text_val.score),
                   completeness |-> ParseScore(response_text_val.completeness),
                   needs_improvement |-> response_text_val.improve = "SIM",
                   improvement_suggestions |-> response_text_val.suggestions,
                   needs_human_review |-> response_text_val.review = "SIM"]
          IN  /\ env' = env
              /\ hp' = IF QualityAssessmentOk(assessment)
                       THEN [hp EXCEPT !.validator = "returned",
                                       !.assessment = assessment]
                       ELSE [hp EXCEPT !.validator = "invalid",
                                       !.assessment = DefaultAssessment]
    /\ syn' = SynIdle
    /\ pc' = IF pc = "hc_validate" THEN "hc_guardrails" ELSE "hy_guardrails"
    /\ events' = IF pc = "hy_validate" THEN Append(events, "progress") ELSE events
    /\ UNCHANGED <<rs, use_hybrid, runs, boot, state, visited, graph, app>>

\* check_guardrails_with_openrouter: what it may return. The answer holds
\* the value after PASSOU_VERIFICACAO: ("absent": no such line) and the lines
\* that start with "- "; a failing call returns passed = True and the
\* failure as the one violation
GuardrailChecks ==
    {[call |-> "returned",
      passed |-> (IF text.passed = "absent" THEN TRUE ELSE text.passed = "SIM"),
      violations |-> text.violations] :
         text \in {[passed |-> "absent", violations |-> <<>>],
                   [passed |-> "NAO", violations |-> <<"guardrail_violation">>]}}
    \cup {[call |-> "raised", passed |-> TRUE,
           violations |-> <<"Sistema de guardrails falhou">>]}

\* check_guardrails_with_openrouter, then FinalResponse(status=COMPLETED,
\* warnings=...) and the return
check_guardrails_hc ==
    /\ pc = "hc_guardrails"
    /\ \E guardrail_check \in GuardrailChecks, stats \in SummaryStats(hp.text) :
       LET final_response ==
               PipelineResponse(hp.text, stats, hp.assessment, guardrail_check)
           checked == [hp EXCEPT !.check = guardrail_check]
           envNow == IF guardrail_check.call = "raised"
                     THEN [env EXCEPT !.llmRaised = TRUE] ELSE env
       IN  IF IsResponse(final_response)
           THEN HcFinish([checked EXCEPT !.built = TRUE], final_response, stats, envNow)
           ELSE HcExcept(checked, envNow)
    /\ UNCHANGED <<rs, use_hybrid, runs, boot, syn>>

\* --------------------------- process_legal_query_hybrid_with_crag_data
\* yield ("final", ...): process_legal_query keeps it as final_result and
\* leaves its loop over the generator
YieldFinal(final_response) ==
    /\ app' = [app EXCEPT !.final_result = final_response]
    /\ pc' = "app_final"

\* the except block: a FinalResponse with status FAILED and one warning; its
\* summary is a fixed text around str(e), the message of the exception
HyExcept(e) ==
    YieldFinal(FinalResponse(QueryId, <<"integrated_failure", e>>, HyFailureText, "failed",
                             DefaultConfidence,
                             <<"Falha no sistema hibrido integrado">>,
                             "Sistema integrado indisponivel. Tente novamente mais tarde."))

\* legal_analyzer_agent.run, between two progress steps; on success the
\* synthesis is announced with two more
analyze_integrated ==
    /\ pc = "hy_analyze"
    /\ \/ /\ env' = [env EXCEPT !.llmRaised = TRUE]
          /\ events' = Append(events, "progress")
          /\ HyExcept("provider_error")
          /\ UNCHANGED <<syn, hp>>
       \/ /\ env' = env
          /\ events' = events \o <<"progress", "progress", "progress">>
          /\ pc' = "hy_synthesize"
          /\ syn' = SynStart("streaming")
          /\ hp' = [hp EXCEPT !.groq = HpInit.groq]
          /\ app' = app
    /\ UNCHANGED <<rs, use_hybrid, runs, boot, state, visited, graph>>

\* check_guardrails_with_openrouter after a progress step, then
\* FinalResponse(overall_summary=full_response_text, status=COMPLETED, ...)
check_guardrails_hy ==
    /\ pc = "hy_guardrails"
    /\ events' = Append(events, "progress")
    /\ \E guardrail_check \in GuardrailChecks, stats \in SummaryStats(hp.text) :
       LET final_response ==
               PipelineResponse(hp.text, stats, hp.assessment, guardrail_check)
       IN  /\ hp' = [hp EXCEPT !.check = guardrail_check,
                               !.built = IsResponse(final_response)]
           /\ env' = IF guardrail_check.call = "raised"
                     THEN [env EXCEPT !.llmRaised = TRUE] ELSE env
           /\ IF IsResponse(final_response)
              THEN YieldFinal(final_response)
              ELSE HyExcept("validation_error")
    /\ UNCHANGED <<rs, use_hybrid, runs, boot, state, visited, graph, syn>>

\* ------------------------------------------------------ process_legal_query
\* query_status: the status of the LegalQuery of the run, "none" before the
\* query is constructed; pipeline_runs: how many times the run has entered
\* the synthesis pipeline of hybrid_legal_processor
AppInit == [processed_docs |-> 0, processed_tavily |-> 0, processed_lexml |-> 0,
            final_result |-> NoResponse, final_state |-> NoResponse,
            query_status |-> "none", pipeline_runs |-> 0]

\* the documents whose content has more than 10 characters
RECURSIVE CountLong(_)
CountLong(docs) ==
    IF docs = <<>> THEN 0
    ELSE (IF Head(docs) > MinContentChars THEN 1 ELSE 0) + CountLong(Tail(docs))

\* LegalQuery(...) raises for a text that is too short; else the query has
\* the default status, the trace is opened, the first progress events are
\* yielded and the graph is started. No later statement assigns the status.
StartQuery ==
    /\ pc = "start"
    /\ \/ /\ pc' = "except"
          /\ UNCHANGED <<events, visited, graph, app>>
       \/ /\ pc' = NODE_RETRIEVE
          /\ visited' = <<NODE_RETRIEVE>>
          /\ graph' = "running"
          /\ events' = IF use_hybrid THEN <<"progress", "progress">> ELSE <<"progress">>
          /\ app' = [app EXCEPT !.query_status = "pending"]
    /\ UNCHANGED <<rs, use_hybrid, runs, boot, state, env, syn, hp>>

\* hybrid mode, after the loop over astream: the collected documents are
\* filtered and averaged, crag_span is updated and its context is left
process_crag_data ==
    /\ pc = "after_graph"
    /\ use_hybrid
    /\ LET retrieved_docs == state.retrieved_docs
           processed_docs == CountLong(retrieved_docs.items)
           processed_tavily == IF Truthy(state.tavily_results)
                               THEN Len(state.tavily_results.items) ELSE 0
           processed_lexml == IF Truthy(state.lexml_results)
                              THEN Len(state.lexml_results.items) ELSE 0
       IN  IF Truthy(retrieved_docs) /\ processed_docs = 0
           THEN \* total_content_length / len(processed_docs): ZeroDivisionError
                /\ pc' = "except"
                /\ UNCHANGED <<events, env, app>>
           ELSE \/ \* crag_span.update(...) raises, here or on leaving the context
                   /\ env' = [env EXCEPT !.sinkRaised = TRUE]
                   /\ pc' = "except"
                   /\ UNCHANGED <<events, app>>
                \/ /\ env' = env
                   /\ app' = [app EXCEPT !.processed_docs = processed_docs,
                                         !.processed_tavily = processed_tavily,
                                         !.processed_lexml = processed_lexml]
                   /\ events' = Append(events, "progress")
                   /\ pc' = "hy_start"
    /\ UNCHANGED <<rs, use_hybrid, runs, boot, state, visited, graph, syn, hp>>

\* the hybrid context is entered and the generator started: it runs up to
\* its third progress step, before execute_groq_searches
start_hybrid_processing ==
    /\ pc = "hy_start"
    /\ events' = events \o <<"progress", "progress", "progress">>
    /\ hp' = HpInit
    /\ app' = [app EXCEPT !.pipeline_runs = @ + 1]
    /\ pc' = "hy_groq"
    /\ UNCHANGED <<rs, use_hybrid, runs, boot, state, visited, graph, env, syn>>

\* the loop over the generator has been left at its final step: of the
\* generator only the text it streamed is kept. Then, if final_result:
\* hybrid_span.update(...), then yield ("final", final_result)
yield_final_hybrid ==
    /\ pc = "app_final"
    /\ \/ /\ env' = [env EXCEPT !.sinkRaised = TRUE]
          /\ pc' = "except"
          /\ events' = events
       \/ /\ env' = env
          /\ IF IsResponse(app.final_result)
             THEN Emit("final")
             ELSE Emit("error")
          /\ pc' = "hybrid_exit"
    /\ hp' = [HpInit EXCEPT !.text = hp.text]
    /\ UNCHANGED <<rs, use_hybrid, runs, boot, state, visited, graph, syn, app>>

\* leaving trace_hybrid_processing: span.update(output={"status": "completed"})
exit_trace_hybrid_processing ==
    /\ pc = "hybrid_exit"
    /\ \/ /\ env' = [env EXCEPT !.sinkRaised = TRUE]
          /\ pc' = "except"
       \/ /\ env' = env
          /\ pc' = "trace_exit"
    /\ UNCHANGED <<rs, use_hybrid, runs, boot, state, visited, graph, events, syn, hp, app>>

\* plain mode, after the loop over astream
yield_final_plain ==
    /\ pc = "after_graph"
    /\ ~use_hybrid
    /\ IF IsResponse(app.final_state)
       THEN Emit("final")
       ELSE Emit("error")
    /\ pc' = "trace_exit"
    /\ UNCHANGED <<rs, use_hybrid, runs, boot, state, visited, graph, env, syn, hp, app>>

\* leaving trace_legal_query: span.update(output={"status": "completed"})
exit_trace_legal_query ==
    /\ pc = "trace_exit"
    /\ \/ /\ env' = [env EXCEPT !.sinkRaised = TRUE]
          /\ pc' = "except"
       \/ /\ env' = env
          /\ pc' = "done"
    /\ UNCHANGED <<rs, use_hybrid, runs, boot, state, visited, graph, events, syn, hp, app>>

\* except Exception as e: yield ("error", error_msg)
handle_exception ==
    /\ pc = "except"
    /\ Emit("error")
    /\ pc' = "done"
    /\ UNCHANGED <<rs, use_hybrid, runs, boot, state, visited, graph, env, syn, hp, app>>

\* ------------------------------------------- synthesize_response_streaming
\* a text of n words, as response_text.split() gives them
WordsOf(n) == [j \in 1..n |-> j]

\* a payload is yielded after every third word and after the last one
ChunkWords == 3

\* source: the generator that produced the text; text: its words; stats: what
\* the validators read of it; i: words consumed by the loop; current_text:
\* the words accumulated by the loop; payloads: the contents of the
\* ("streaming", ...) events yielded; final_summary: the words of the
\* overall_summary of the ("final", ...) event
RsIdle == [source |-> "none", text |-> <<>>, stats |-> TextStats(0, 0, 0, 0), i |-> 0,
           current_text |-> <<>>, payloads |-> <<>>, final_summary |-> <<>>]

\* what the validators may read of an LLM text of n words
StreamStats(n) ==
    IF n = 0 THEN {TextStats(0, 0, 0, 0)}
    ELSE {TextStats(chars, sentences, n, n) :
              chars \in {ShortText.chars, GoodText.chars}, sentences \in {1, 2}}

\* entry of synthesize_response_streaming: without a query, one error event
synthesize_response_streaming ==
    /\ pc = "rs_start"
    /\ IF state.query = PyNone
       THEN /\ Emit("error")
            /\ pc' = "rs_done"
       ELSE /\ events' = events
            /\ pc' = "rs_hybrid"
    /\ UNCHANGED <<rs, use_hybrid, runs, boot, state, visited, graph, env, syn, hp, app>>

\* synthesize_with_hybrid_corrected_approach_streaming up to its loop: when
\* LegalQuery(...) raises, the simulation generator takes over and its three
\* progress steps are passed on; else the pipeline returns a FinalResponse
\* (a validated one, the failure response included)
synthesize_with_hybrid_corrected_approach_streaming ==
    /\ pc = "rs_hybrid"
    /\ \/ /\ pc' = "rs_simulation"
          /\ events' = events \o <<"progress", "progress", "progress">>
          /\ rs' = rs
       \/ \E n \in 2..MaxStreamWords :
          /\ pc' = "rs_stream"
          /\ events' = events
          /\ rs' = [rs EXCEPT !.source = "hybrid", !.text = WordsOf(n),
                              !.stats = TextStats(GoodText.chars, 2, n, n)]
    /\ UNCHANGED <<use_hybrid, runs, boot, state, visited, graph, env, syn, hp, app>>

\* synthesize_with_hybrid_simulation_fallback_streaming: the analysis call
\* (a failure is replaced by a fixed text) and the synthesis call, through
\* OpenRouter or through Groq; when the synthesis call raises, an error event
synthesize_with_hybrid_simulation_fallback_streaming ==
    /\ pc = "rs_simulation"
    /\ \/ /\ env' = [env EXCEPT !.llmRaised = TRUE]
          /\ Emit("error")
          /\ pc' = "rs_done"
          /\ rs' = rs
       \/ \E n \in 0..MaxStreamWords, source \in {"simulation_openrouter", "simulation_groq"} :
          \E stats \in StreamStats(n) :
             /\ env' = env
             /\ events' = events
             /\ pc' = "rs_stream"
             /\ rs' = [rs EXCEPT !.source = source, !.text = WordsOf(n), !.stats = stats]
    /\ UNCHANGED <<use_hybrid, runs, boot, state, visited, graph, syn, hp, app>>

\* one turn of "for i, word in enumerate(words)": current_text += word + " ",
\* and current_text.strip() is yielded as a streaming payload after every
\* third word and after the last word
SimulateStreaming ==
    /\ pc = "rs_stream"
    /\ rs.i < Len(rs.text)
    /\ LET i == rs.i
           current_text == Append(rs.current_text, rs.text[i + 1])
           yields == (i + 1) % ChunkWords = 0 \/ i = Len(rs.text) - 1
       IN  /\ rs' = [rs EXCEPT !.i = i + 1, !.current_text = current_text,
                               !.payloads = IF yields THEN Append(@, current_text) ELSE @]
           /\ events' = IF yields THEN Append(events, "streaming") ELSE events
    /\ UNCHANGED <<pc, use_hybrid, runs, boot, state, visited, graph, env, syn, hp, app>>

\* after the loop: SimpleFinalResponse(overall_summary=...) is yielded as
\* final and synthesize_response_streaming rebuilds it as FinalResponse(
\* query_id, overall_summary, disclaimer); a text that one of the two refuses
\* ends in an error event
YieldStreamingFinal ==
    /\ pc = "rs_stream"
    /\ rs.i = Len(rs.text)
    /\ LET final_response ==
               FinalResponse(QueryId, rs.text, rs.stats, "completed",
                             DefaultConfidence, <<>>, "streaming_disclaimer")
       IN  IF SimpleFinalResponseOk(rs.stats) /\ IsResponse(final_response)
           THEN /\ Emit("final")
                /\ rs' = [rs EXCEPT !.final_summary = rs.text]
           ELSE /\ Emit("error")
                /\ rs' = rs
    /\ pc' = "rs_done"
    /\ UNCHANGED <<use_hybrid, runs, boot, state, visited, graph, env, syn, hp, app>>

\* ------------------------------------------------------------ error_handler
\* what the validators read of f"Desculpe, ocorreu um erro: {error_message}"
ErrorValues == {PyNone, "short_message", "long_message"}
HandleErrorStats(error) ==
    IF error = PyNone THEN HandleErrorText
    ELSE IF error = "short_message" THEN TextStats(45, 1, 7, 7)
    ELSE TextStats(400, 5, 60, 50)

\* handle_error: FinalResponse(overall_summary=..., retrieved_documents=[],
\* detailed_analysis=[]) is built without query_id
handle_error ==
    /\ pc = NODE_ERROR
    /\ LET final_response ==
               FinalResponse(Missing, <<"error_apology">>, HandleErrorStats(state.error),
                             "completed", DefaultConfidence, <<>>, DefaultDisclaimer)
       IN  IF IsResponse(final_response)
           THEN /\ env' = env
                /\ FinishNode(NODE_ERROR, [final_response |-> final_response])
           ELSE RaiseFromNode(NODE_ERROR)
    /\ UNCHANGED <<rs, use_hybrid, runs, boot, syn, hp>>

\* ------------------------------------------------------------------ start-up
\* the system once app.py has imported its modules with every key present
BootStarted ==
    [keys |-> [openrouter |-> TRUE, groq |-> TRUE, google |-> TRUE],
     EMBEDDINGS |-> "built", grader_agent |-> "openrouter",
     transformer_agent |-> "openrouter", search_decision_agent |-> "openrouter",
     hybrid_agents |-> "built", synthesizer_agent |-> "openrouter",
     system |-> "success"]

\* llm_factory: EMBEDDINGS is built if GOOGLE_API_KEY is set and
\* GoogleGenerativeAIEmbeddings(...) does not raise, else it stays None
import_llm_factory ==
    /\ pc = "import_llm_factory"
    /\ \E embeddings \in (IF boot.keys.google THEN {"built", "None"} ELSE {"None"}) :
          boot' = [boot EXCEPT !.EMBEDDINGS = embeddings]
    /\ pc' = "import_document_retriever"
    /\ UNCHANGED <<use_hybrid, runs, state, visited, graph, events, env, syn, hp, app, rs>>

\* document_retriever: raise ImportError when EMBEDDINGS is None
import_document_retriever ==
    /\ pc = "import_document_retriever"
    /\ pc' = IF boot.EMBEDDINGS = "None" THEN "import_failed" ELSE "import_document_grader"
    /\ UNCHANGED <<use_hybrid, runs, state, visited, graph, events, env, syn, hp, app, rs, boot>>

\* document_grader: Agent(model=get_pydantic_ai_llm(...)) inside try; None
\* when the key is missing or the constructor raises
import_document_grader ==
    /\ pc = "import_document_grader"
    /\ \E agent \in (IF boot.keys.openrouter THEN {"openrouter", "None"} ELSE {"None"}) :
          boot' = [boot EXCEPT !.grader_agent = agent]
    /\ pc' = "import_query_transformer"
    /\ UNCHANGED <<use_hybrid, runs, state, visited, graph, events, env, syn, hp, app, rs>>

\* query_transformer: the same try / except
import_query_transformer ==
    /\ pc = "import_query_transformer"
    /\ \E agent \in (IF boot.keys.openrouter THEN {"openrouter", "None"} ELSE {"None"}) :
          boot' = [boot EXCEPT !.transformer_agent = agent]
    /\ pc' = "import_search_coordinator"
    /\ UNCHANGED <<use_hybrid, runs, state, visited, graph, events, env, syn, hp, app, rs>>

\* search_coordinator: search_decision_agent = Agent(model=
\* get_pydantic_ai_llm(...)) at module level, outside any try
import_search_coordinator ==
    /\ pc = "import_search_coordinator"
    /\ \/ /\ boot.keys.openrouter
          /\ boot' = [boot EXCEPT !.search_decision_agent = "openrouter"]
          /\ pc' = "import_hybrid_legal_processor"
       \/ \* ValueError of get_pydantic_ai_llm, or the constructor raises
          /\ boot' = boot
          /\ pc' = "import_failed"
    /\ UNCHANGED <<use_hybrid, runs, state, visited, graph, events, env, syn, hp, app, rs>>

\* hybrid_legal_processor, imported by response_synthesizer: six agents on
\* create_openrouter_model(...) and one on create_groq_model(...), at module
\* level, outside any try
import_hybrid_legal_processor ==
    /\ pc = "import_hybrid_legal_processor"
    /\ \/ /\ boot.keys.openrouter
          /\ boot.keys.groq
          /\ boot' = [boot EXCEPT !.hybrid_agents = "built"]
          /\ pc' = "import_response_synthesizer"
       \/ /\ boot' = boot
          /\ pc' = "import_failed"
    /\ UNCHANGED <<use_hybrid, runs, state, visited, graph, events, env, syn, hp, app, rs>>

\* response_synthesizer: synthesizer_agent = create_robust_openrouter_agent(),
\* and create_robust_groq_agent() if that is None; both return None when the
\* key is missing or on an exception
import_response_synthesizer ==
    /\ pc = "import_response_synthesizer"
    /\ \E openrouter_agent \in (IF boot.keys.openrouter
                                THEN {"openrouter", "None"} ELSE {"None"}),
          groq_agent \in (IF boot.keys.groq THEN {"groq", "None"} ELSE {"None"}) :
          boot' = [boot EXCEPT !.synthesizer_agent =
                                   IF openrouter_agent = "None"
                                   THEN groq_agent ELSE openrouter_agent]
    /\ pc' = "load_system"
    /\ UNCHANGED <<use_hybrid, runs, state, visited, graph, events, env, syn, hp, app, rs>>

\* load_system: build_graph() inside try; status is success or error
load_system ==
    /\ pc = "load_system"
    /\ \E status \in {"success", "error"} :
          boot' = [boot EXCEPT !.system = status]
    /\ pc' = "started"
    /\ UNCHANGED <<use_hybrid, runs, state, visited, graph, events, env, syn, hp, app, rs>>

\* ------------------------------------------------------------ specification
Init ==
    /\ pc = "start"
    /\ use_hybrid \in BOOLEAN
    /\ state = InitialState
    /\ visited = <<>>
    /\ graph = "idle"
    /\ events = <<>>
    /\ env = EnvInit
    /\ syn = SynIdle
    /\ hp = HpInit
    /\ app = AppInit
    /\ runs = NoRuns
    /\ rs = RsIdle
    /\ boot = BootStarted

Next ==
    \/ StartQuery
    \/ retrieve_documents
    \/ grade_documents
    \/ transform_query
    \/ search_jurisprudencia
    \/ evaluate_search_necessity
    \/ search_web_conditional
    \/ synthesize_response
    \/ synthesize_with_hybrid_simulation_fallback
    \/ search_decision
    \/ execute_vectordb_search_openrouter
    \/ execute_groq_searches
    \/ analyze_with_openrouter
    \/ SectionCall
    \/ ExpansionCall
    \/ FallbackCall
    \/ validate_with_openrouter
    \/ check_guardrails_hc
    \/ synthesize_with_hybrid_corrected_approach
    \/ process_crag_data
    \/ start_hybrid_processing
    \/ analyze_integrated
    \/ check_guardrails_hy
    \/ yield_final_hybrid
    \/ exit_trace_hybrid_processing
    \/ yield_final_plain
    \/ exit_trace_legal_query
    \/ handle_exception

Spec == Init /\ [][Next]_vars

\* The error_handler node is wired to END but no edge leads to it: it is
\* examined on its own, entered with any state a run may have built.
InitErrorHandler ==
    /\ pc = NODE_ERROR
    /\ use_hybrid \in BOOLEAN
    /\ \E error \in ErrorValues,
          grade \in {PyNone, "relevant", "irrelevant", "needs_web_search"},
          docs \in SeqsUpTo(DocLens, MaxDocs),
          lexml \in {NoneList, List(<<>>), List(<<"lexml_doc">>)} :
       state = [InitialState EXCEPT !.error = error, !.grade = grade,
                                    !.retrieved_docs = List(docs),
                                    !.lexml_results = lexml]
    /\ visited = <<NODE_ERROR>>
    /\ graph = "running"
    /\ events = <<"progress">>
    /\ env = EnvInit
    /\ syn = SynIdle
    /\ hp = HpInit
    /\ app = AppInit
    /\ runs = NoRuns
    /\ rs = RsIdle
    /\ boot = BootStarted

NextErrorHandler ==
    \/ handle_error
    \/ handle_exception

SpecErrorHandler == InitErrorHandler /\ [][NextErrorHandler]_vars

\* synthesize_response_streaming on its own, called with a state that holds
\* the query or not
InitResponseStreaming ==
    /\ pc = "rs_start"
    /\ use_hybrid = TRUE
    /\ \E query \in {"LegalQuery", PyNone} :
       state = [InitialState EXCEPT !.query = query]
    /\ visited = <<>>
    /\ graph = "idle"
    /\ events = <<>>
    /\ env = EnvInit
    /\ syn = SynIdle
    /\ hp = HpInit
    /\ app = AppInit
    /\ runs = NoRuns
    /\ rs = RsIdle
    /\ boot = BootStarted

NextResponseStreaming ==
    \/ synthesize_response_streaming
    \/ synthesize_with_hybrid_corrected_approach_streaming
    \/ synthesize_with_hybrid_simulation_fallback_streaming
    \/ SimulateStreaming
    \/ YieldStreamingFinal

SpecResponseStreaming == InitResponseStreaming /\ [][NextResponseStreaming]_vars

\* parse_decision_response and FinalResponse(...) on their own: each is
\* handed one of the texts it may be given and applied to it.
SummaryInputs ==
    {TextStats(chars, sentences, words, unique) :
         chars \in {12, 99, 100, 15000, 15001}, sentences \in 0..3,
         words \in {3, 9, 10, 40}, unique \in {1, 2, 3, 9, 10, 40}}

InitModels ==
    /\ \/ /\ pc = "parse_decision"
          /\ \E decision_text \in DecisionTexts :
                hp = [HpInit EXCEPT !.decision_text = decision_text]
       \/ /\ pc = "construct"
          /\ \E stats \in SummaryInputs :
                /\ stats.unique <= stats.words
                /\ stats.sentences <= stats.words
                /\ stats.chars >= 2 * stats.words - 1
                /\ hp = [HpInit EXCEPT !.stats = stats]
    /\ use_hybrid = FALSE
    /\ state = InitialState
    /\ visited = <<>>
    /\ graph = "idle"
    /\ events = <<>>
    /\ env = EnvInit
    /\ syn = SynIdle
    /\ app = AppInit
    /\ runs = NoRuns
    /\ rs = RsIdle
    /\ boot = BootStarted

ParseDecision ==
    /\ pc = "parse_decision"
    /\ hp' = [hp EXCEPT !.decision = parse_decision_response(hp.decision_text)]
    /\ pc' = "parsed"
    /\ UNCHANGED <<rs, use_hybrid, runs, boot, state, visited, graph, events, env, syn, app>>

ConstructFinalResponse ==
    /\ pc = "construct"
    /\ LET final_response ==
               FinalResponse(QueryId, <<"overall_summary">>, hp.stats, "completed",
                             DefaultConfidence, <<>>, DefaultDisclaimer)
       IN  hp' = [hp EXCEPT !.response = final_response,
                            !.built = IsResponse(final_response)]
    /\ pc' = "constructed"
    /\ UNCHANGED <<rs, use_hybrid, runs, boot, state, visited, graph, events, env, syn, app>>

NextModels ==
    \/ ParseDecision
    \/ ConstructFinalResponse

SpecModels == InitModels /\ [][NextModels]_vars

\* start-up of app.py in an environment that holds any of the keys
InitStartup ==
    /\ pc = "import_llm_factory"
    /\ use_hybrid = FALSE
    /\ state = InitialState
    /\ visited = <<>>
    /\ graph = "idle"
    /\ events = <<>>
    /\ env = EnvInit
    /\ syn = SynIdle
    /\ hp = HpInit
    /\ app = AppInit
    /\ runs = NoRuns
    /\ rs = RsIdle
    /\ \E keys \in [openrouter : BOOLEAN, groq : BOOLEAN, google : BOOLEAN] :
          boot = [keys |-> keys, EMBEDDINGS |-> "unset", grader_agent |-> "unset",
                  transformer_agent |-> "unset", search_decision_agent |-> "unset",
                  hybrid_agents |-> "unset", synthesizer_agent |-> "unset",
                  system |-> "unset"]

NextStartup ==
    \/ import_llm_factory
    \/ import_document_retriever
    \/ import_document_grader
    \/ import_query_transformer
    \/ import_search_coordinator
    \/ import_hybrid_legal_processor
    \/ import_response_synthesizer
    \/ load_system

SpecStartup == InitStartup /\ [][NextStartup]_vars

\* ------------------------------------------------------- concurrent queries
\* the queries processed at the same time, each by its own call of
\* process_legal_query on the one cached graph
Runs == {1, 2}

\* what the collaborators answer to one run: the documents of the vector
\* store, the grade of the grader, the rewritten query (or that the rewrite
\* failed), the documents of LexML, the decision of the evaluator, the
\* results of the web search
Scripts ==
    [docs : {<<>>, <<50>>}, grade : {"relevant", "irrelevant"},
     rewrite : {"rewritten", "failed"}, lexml : {<<>>, <<"lexml_doc">>},
     needs_web : {PyTrue, PyFalse}, web : {<<"web_result">>}]

\* a view that hands every run the state of run 1
RunViewShared(of, r) == of[1].state

\* the state a node of run r is called with: the channels of that run's own
\* astream call (the graph is compiled without a checkpointer)
RunView(of, r) == of[r].state

\* the update node n returns when called with state s in a run whose
\* collaborators answer as script says
NodeUpdate(n, s, script) ==
    CASE n = NODE_RETRIEVE -> [retrieved_docs |-> List(script.docs)]
      [] n = NODE_GRADE ->
            IF ~Truthy(s.retrieved_docs) THEN [grade |-> "irrelevant"]
            ELSE [grade |-> script.grade]
      [] n = NODE_TRANSFORM ->
            IF script.rewrite = "failed" THEN NoUpdate
            ELSE [current_query |-> script.rewrite, transformed_query |-> script.rewrite]
      [] n = NODE_LEXML ->
            [lexml_results |-> List(script.lexml), needs_jurisprudencia |-> PyFalse]
      [] n = NODE_EVALUATE ->
            [needs_web_search |-> script.needs_web,
             web_search_reasoning |-> "decision_reasoning",
             web_search_query |-> PyNone,
             evaluation_complete |-> PyTrue]
      [] n = NODE_WEB_SEARCH ->
            IF s.needs_web_search # PyTrue
            THEN [tavily_results |-> NoneList, web_search_skipped |-> PyTrue]
            ELSE [tavily_results |-> List(script.web), web_search_performed |-> PyTrue]
      [] n = NODE_SYNTHESIZE ->
            [final_response |->
                FinalResponse(QueryId, <<"basic_synthesis">>, BasicSynthesisText,
                              "completed", DefaultConfidence, <<>>, "basic_disclaimer")]

\* of[r]: the run of query r; steps: the nodes it has executed; overlap: a
\* run has taken a step while the other one was between its first and its
\* last node
RunsInit(scripts) ==
    [of |-> [r \in Runs |-> [pc |-> "waiting", state |-> InitialState,
                             script |-> scripts[r], steps |-> 0]],
     overlap |-> FALSE]

InFlight(r) == runs.of[r].pc \in Nodes

OtherInFlight(r) == \E o \in Runs \ {r} : InFlight(o) /\ runs.of[o].steps > 0

\* process_legal_query of query r calls astream with its initial state
StartRun(r) ==
    /\ pc = "concurrent"
    /\ runs.of[r].pc = "waiting"
    /\ runs' = [runs EXCEPT !.of[r].pc = NODE_RETRIEVE]
    /\ UNCHANGED <<pc, use_hybrid, state, visited, graph, events, env, syn, hp, app, rs,
                   boot>>

\* the node run r is at executes between two await points of the other runs
RunNode(r) ==
    /\ pc = "concurrent"
    /\ InFlight(r)
    /\ LET run == runs.of[r]
           upd == NodeUpdate(run.pc, RunView(runs.of, r), run.script)
           s2 == Merge(run.state, upd)
       IN  runs' = [runs EXCEPT !.of[r] = [run EXCEPT !.state = s2,
                                                      !.pc = NextNode(run.pc, s2),
                                                      !.steps = @ + 1],
                                !.overlap = @ \/ OtherInFlight(r)]
    /\ UNCHANGED <<pc, use_hybrid, state, visited, graph, events, env, syn, hp, app, rs,
                   boot>>

\* the run of a script when no other run is in flight, after k nodes
RECURSIVE AloneAfter(_, _)
AloneAfter(script, k) ==
    IF k = 0 THEN [pc |-> NODE_RETRIEVE, state |-> InitialState]
    ELSE LET p == AloneAfter(script, k - 1)
         IN  IF p.pc = END THEN p
             ELSE LET s2 == Merge(p.state, NodeUpdate(p.pc, p.state, script))
                  IN  [pc |-> NextNode(p.pc, s2), state |-> s2]

InitConcurrent ==
    /\ pc = "concurrent"
    /\ use_hybrid = FALSE
    /\ state = InitialState
    /\ visited = <<>>
    /\ graph = "idle"
    /\ events = <<>>
    /\ env = EnvInit
    /\ syn = SynIdle
    /\ hp = HpInit
    /\ app = AppInit
    /\ rs = RsIdle
    /\ boot = BootStarted
    /\ \E scripts \in [Runs -> Scripts] : runs = RunsInit(scripts)

NextConcurrent ==
    \/ \E r \in Runs : StartRun(r)
    \/ \E r \in Runs : RunNode(r)

SpecConcurrent == InitConcurrent /\ [][NextConcurrent]_vars

\* ------------------------------------------------------------------ claims
Range(seq) == {seq[i] : i \in DOMAIN seq}
Terminal(stage) == stage \in {"final", "error"}
IsPrefix(a, b) == Len(a) <= Len(b) /\ \A i \in DOMAIN a : a[i] = b[i]

\* C1: the event stream of one query holds exactly one terminal event,
\* 'final' or 'error', and nothing is yielded after it.
C1_OneTerminalEventLast ==
    /\ \A i \in DOMAIN events : Terminal(events[i]) => i = Len(events)
    /\ pc = "done" => (events # <<>> /\ Terminal(events[Len(events)]))

\* C2: the node after grade is transform exactly when grade is 'irrelevant'
\* and lexml for every other grade; the node after transform is lexml.
C2_RoutingAfterGrade ==
    \A i \in DOMAIN visited :
        /\ (visited[i] = NODE_GRADE /\ i < Len(visited)) =>
               visited[i + 1] = (IF state.grade = "irrelevant"
                                 THEN NODE_TRANSFORM ELSE NODE_LEXML)
        /\ (visited[i] = NODE_TRANSFORM /\ i < Len(visited)) =>
               visited[i + 1] = NODE_LEXML

C2_Witness ==
    /\ state.grade = "irrelevant"
    /\ Len(visited) >= 4
    /\ visited[2] = NODE_GRADE
    /\ visited[3] = NODE_TRANSFORM
    /\ visited[4] = NODE_LEXML

\* C3: when exactly one of the three searches raised, every LLM call
\* succeeded and nothing else failed, the failing stage left an empty result
\* and the finished run ended with 'final' and yielded no 'error'.
C3_SearchFailureStillFinal ==
    LET raised == {k \in {"vecRaised", "lexRaised", "webRaised"} : env[k]}
    IN  (/\ pc = "done"
         /\ Cardinality(raised) = 1
         /\ ~env.llmRaised
         /\ ~env.sinkRaised
         /\ env.nodeRaised = PyNone)
        => /\ env.vecRaised => state.retrieved_docs = List(<<>>)
           /\ env.lexRaised => state.lexml_results = List(<<>>)
           /\ env.webRaised => state.tavily_results = NoneList
           /\ events[Len(events)] = "final"
           /\ "error" \notin Range(events)

\* C4: however a graph run ends, the state holds a FinalResponse under
\* final_response; the error_handler node returns one and does not raise.
C4_EndedRunHasFinalResponse ==
    graph \in {"ended", "raised"} => IsResponse(state.final_response)

\* C5: when the synthesis failed fatally, the FinalResponse in the run state
\* has status failed and a non-empty warnings list.
C5_FatalSynthesisIsFailed ==
    (env.fatal /\ IsResponse(state.final_response))
    => /\ state.final_response.status = "failed"
       /\ state.final_response.warnings # <<>>

\* C6: a run in which a node let an exception out has executed error_handler
\* by the time it is over.
C6_NodeExceptionRunsErrorHandler ==
    (pc = "done" /\ env.nodeRaised # PyNone) => NODE_ERROR \in Range(visited)

\* C7: the non-streaming synthesis returns a non-empty text: the four-section
\* text when no section call raised; else it made exactly one single-call
\* synthesis and returns its text if that has at least 200 characters, the
\* template if the call raised or returned less.
C7_SynthesisOrder ==
    (syn.mode = "four_parts" /\ syn.phase = "done")
    => /\ pc = "hc_validate"
       /\ syn.chars > 0
       /\ syn.result = (IF ~syn.raised THEN "four_part"
                        ELSE IF syn.single = "returned" /\ syn.single_chars >= 200
                        THEN "single" ELSE "template")
       /\ syn.fallbackCalls = (IF syn.raised THEN 1 ELSE 0)
       /\ hp.text # <<>>

C7_Witness ==
    /\ syn.mode = "four_parts"
    /\ syn.phase = "done"
    /\ syn.raised
    /\ syn.single = "returned"
    /\ syn.single_chars = 199
    /\ syn.result = "template"

\* C8: the answer of the integrated pipeline's final response never holds
\* the synthesis error message as one of its chunks.
C8_NoErrorChunkInAnswer ==
    IsResponse(app.final_result) => "synthesis_error" \notin Range(app.final_result.summary)

\* C9: the section chunks streamed so far are a prefix of introduction,
\* development, analysis, conclusion: each at most once and after all the
\* earlier ones, also when a later section fails.
C9_SectionChunksInOrder ==
    syn.mode = "streaming"
    => IsPrefix(SelectSeq(hp.text, LAMBDA c : c # "synthesis_error"),
                <<"intro", "dev", "analysis", "conclusion">>)

C9_Witness ==
    /\ syn.mode = "streaming"
    /\ hp.text = <<"intro", "dev", "synthesis_error">>

\* C10: a section gets its expansion call exactly when its first generation
\* is below the section's floor, the expanded text is taken as it is, a
\* section costs at most 2 calls and the four sections at most 8.
C10_ExpansionOncePerSection ==
    syn.sec \in 1..4
    => /\ syn.secCalls <= 2
       /\ syn.calls <= 8
       /\ syn.phase = "expand" => (syn.secCalls = 1 /\ syn.first < Floor(syn.mode, syn.sec))
       /\ (syn.phase \in {"complete", "done"} /\ ~syn.raised)
          => (syn.secCalls = 2 <=> syn.first < Floor(syn.mode, syn.sec))

C10_Witness ==
    /\ syn.phase = "done"
    /\ ~syn.raised
    /\ syn.calls = 8
    /\ syn.secCalls = 2
    /\ syn.words < Floor(syn.mode, syn.sec)

\* C11: once a section's expansion call has returned, the section text used
\* in the answer has at least as many words as the first generation had.
C11_ExpansionNeverShrinks ==
    (/\ syn.sec \in 1..4
     /\ syn.secCalls = 2
     /\ syn.phase \in {"complete", "done"}
     /\ ~syn.raised)
    => syn.words >= syn.first

RECURSIVE Concat(_)
Concat(texts) == IF texts = <<>> THEN <<>> ELSE Head(texts) \o Concat(Tail(texts))

\* C12: the streaming payloads of synthesize_response_streaming are
\* increments: no two of them hold the same word of the answer, and put one
\* after the other they are the overall_summary of the final event.
C12_PayloadsAreIncrements ==
    (pc = "rs_done" /\ events # <<>> /\ events[Len(events)] = "final")
    => /\ Concat(rs.payloads) = rs.final_summary
       /\ \A a, b \in DOMAIN rs.payloads :
              a # b => Range(rs.payloads[a]) \cap Range(rs.payloads[b]) = {}

\* C13: in hybrid mode every section chunk of the synthesis has reached the
\* event stream as a 'streaming' event by the time 'final' is yielded.
C13_SectionChunksReachStream ==
    (use_hybrid /\ events # <<>> /\ events[Len(events)] = "final")
    => Len(SelectSeq(events, LAMBDA e : e = "streaming"))
       = Len(SelectSeq(hp.text, LAMBDA c : c \in Range(Sections)))

\* C14: once the grade node has run on an empty document list, grade is
\* 'irrelevant', whether the grader agent is available or not.
C14_EmptyRetrievalIsIrrelevant ==
    (state.grade # PyNone /\ ~Truthy(state.retrieved_docs))
    => state.grade = "irrelevant"

\* C15: when the grader LLM returned a text without a well-formed RELEVANCIA
\* line, the grade is 'relevant', whatever other words the text contains.
C15_MalformedGradeIsRelevant ==
    env.graderLine = "none" => state.grade = "relevant"

Indices(n) == {i \in DOMAIN visited : visited[i] = n}

\* C16: the jurisprudence search runs at most once; past grading it is the
\* next node, or the one after the rewrite; evaluate, web search and
\* synthesize run only after it, and it runs after grade and the rewrite.
C16_LexmlAlwaysOnce ==
    /\ Cardinality(Indices(NODE_LEXML)) <= 1
    /\ \A g \in Indices(NODE_GRADE) :
          g < Len(visited) =>
              \/ visited[g + 1] = NODE_LEXML
              \/ /\ visited[g + 1] = NODE_TRANSFORM
                 /\ g + 1 < Len(visited) => visited[g + 2] = NODE_LEXML
    /\ \A i \in DOMAIN visited :
          visited[i] \in {NODE_EVALUATE, NODE_WEB_SEARCH, NODE_SYNTHESIZE} =>
              \E l \in Indices(NODE_LEXML) :
                 /\ l < i
                 /\ \E g \in Indices(NODE_GRADE) : g < l
                 /\ \A t \in Indices(NODE_TRANSFORM) : t < l

C16_Witness ==
    /\ graph = "ended"
    /\ state.grade = "irrelevant"
    /\ Cardinality(Indices(NODE_LEXML)) = 1
    /\ Indices(NODE_TRANSFORM) # {}
    /\ Indices(NODE_SYNTHESIZE) # {}

\* C17: the web backend has been called only in a run whose evaluator said
\* needs_web_search = True; after a decision of False the web_search node
\* does not run and synthesize follows evaluate directly.
C17_WebSearchOnlyOnYes ==
    /\ env.webCalled => state.needs_web_search = PyTrue
    /\ state.needs_web_search # PyTrue => Indices(NODE_WEB_SEARCH) = {}
    /\ \A e \in Indices(NODE_EVALUATE) :
          e < Len(visited) =>
              visited[e + 1] = (IF state.needs_web_search = PyTrue
                                THEN NODE_WEB_SEARCH ELSE NODE_SYNTHESIZE)

C17_Witness ==
    /\ state.needs_web_search = PyFalse
    /\ ~env.evalFallback
    /\ graph = "ended"
    /\ \E e \in Indices(NODE_EVALUATE) : visited[e + 1] = NODE_SYNTHESIZE

\* C18: when the evaluator fell back (its LLM call raised, or the state held
\* no query), needs_web_search is False and evaluation_complete is True, and
\* the run goes on to synthesize without a web search.
C18_EvaluatorFailureMeansNoWebSearch ==
    env.evalFallback
    => /\ state.needs_web_search = PyFalse
       /\ state.evaluation_complete = PyTrue
       /\ Indices(NODE_WEB_SEARCH) = {}
       /\ ~env.webCalled
       /\ \A e \in Indices(NODE_EVALUATE) :
             e < Len(visited) => visited[e + 1] = NODE_SYNTHESIZE

C18_Witness ==
    /\ env.evalFallback
    /\ graph = "ended"
    /\ Indices(NODE_SYNTHESIZE) # {}
    /\ IsResponse(state.final_response)

\* C19: when the rewrite failed or was not available, current_query and
\* transformed_query hold the values they had before the node, and the
\* rewrite node has run once only.
C19_FailedRewriteKeepsQuery ==
    env.transformFailed
    => /\ state.current_query = InitialState.current_query
       /\ state.transformed_query = InitialState.transformed_query
       /\ Cardinality(Indices(NODE_TRANSFORM)) = 1

C19_Witness ==
    /\ env.transformFailed
    /\ env.llmRaised
    /\ Indices(NODE_LEXML) # {}
    /\ graph = "ended"

\* C20: the synthesize node runs only after retrieve, lexml, evaluate and,
\* when the evaluator asked for it, web_search have finished; in the hybrid
\* pipeline the analysis and the synthesis start only after the vector
\* search and the tool-executor search have returned.
C20_SynthesisAfterSearches ==
    /\ \A i \in Indices(NODE_SYNTHESIZE) :
          \A n \in {NODE_RETRIEVE, NODE_LEXML, NODE_EVALUATE}
                   \cup (IF state.needs_web_search = PyTrue
                         THEN {NODE_WEB_SEARCH} ELSE {}) :
             \E j \in Indices(n) : j < i
    /\ pc \in {"hc_analyze", "hc_synthesize"} => hp.returned = <<"vectordb", "groq">>

C20_Witness ==
    /\ pc = "hc_synthesize"
    /\ syn.phase = "start"
    /\ env.webRaised
    /\ env.lexRaised
    /\ hp.returned = <<"vectordb", "groq">>

\* C21 as stated: once validation has run, the response of the pipeline has
\* status completed, whatever the validator and the guardrail checker gave.
C21_CompletedOnceValidationRan ==
    /\ (pc = "hc_return" /\ hp.validator # "none") => hp.response.status = "completed"
    /\ (pc = "app_final" /\ hp.validator # "none") => app.final_result.status = "completed"

\* C21: no outcome of the quality validator or of the guardrail checker
\* changes the status: once validation has run, the response has status
\* completed whenever FinalResponse takes the synthesized text, and is the
\* failed response of the except block only when FinalResponse refuses it.
C21_ValidatorsNeverChangeStatus ==
    /\ (pc = "hc_return" /\ hp.validator # "none")
       => hp.response.status = (IF hp.built THEN "completed" ELSE "failed")
    /\ (pc = "app_final" /\ hp.validator # "none")
       => app.final_result.status = (IF hp.built THEN "completed" ELSE "failed")

C21_Witness ==
    /\ pc = "app_final"
    /\ hp.validator = "invalid"
    /\ ~hp.check.passed
    /\ app.final_result.status = "completed"
    /\ app.final_result.warnings = <<"guardrail_violation">>

\* C22: when the guardrail checker call failed in a hybrid run, the check is
\* passed and the FinalResponse that the run is about to deliver in its
\* 'final' event has a warning that records the failure.
C22_GuardrailFailureRecorded ==
    (/\ pc = "app_final"
     /\ hp.check.call = "raised"
     /\ app.final_result.status = "completed")
    => /\ hp.check.passed
       /\ "Sistema de guardrails falhou" \in Range(app.final_result.warnings)

\* C23: when the validator call raised, or its scores were refused by
\* QualityAssessment, the assessment is the default one (overall score 0.75,
\* needs_improvement and needs_human_review false) and the pipeline is at the
\* guardrail step or past it.
C23_ValidatorFailureGivesDefault ==
    hp.validator \in {"raised", "invalid"}
    => /\ hp.assessment.overall_score = 75
       /\ ~hp.assessment.needs_improvement
       /\ ~hp.assessment.needs_human_review
       /\ pc \in {"hc_guardrails", "hy_guardrails"} \/ hp.check.call # "none"

C23_Witness ==
    /\ hp.validator = "invalid"
    /\ hp.check.call = "returned"
    /\ hp.built
    /\ pc = "hc_return"

\* C24: when the jurisprudence search failed in a run that ended with 'final',
\* lexml_results is the empty list and the warnings of the FinalResponse of
\* that event hold a note about the jurisprudence failure, that is a warning
\* that is neither a validator suggestion nor a guardrail violation.
C24_JurisprudenceFailureNoted ==
    (env.lexRaised /\ events # <<>> /\ events[Len(events)] = "final")
    => /\ state.lexml_results = List(<<>>)
       /\ LET delivered == IF use_hybrid THEN app.final_result ELSE app.final_state
          IN  \E w \in Range(delivered.warnings) :
                  w \notin {"improvement_suggestion", "guardrail_violation"}

\* C26: in the hybrid pipeline a source is queried only if the decision marks
\* it as needed: with needs_vectordb false the vector search has not run, and
\* with needs_web, needs_lexml and needs_jurisprudence all false the
\* tool-executor agent has not been called.
C26_OnlyNeededSourcesQueried ==
    hp.decision.made
    => /\ ~hp.decision.needs_vectordb => "vectordb" \notin Range(hp.returned)
       /\ (/\ ~hp.decision.needs_web
           /\ ~hp.decision.needs_lexml
           /\ ~hp.decision.needs_jurisprudence) => hp.groq.calls = 0

\* C27: once execute_groq_searches has been called it has returned a
\* GroqSearchResult to the pipeline after one call of the agent and at most
\* the 10 seconds of the timeout: the timeout placeholder when the timeout
\* fired, the error result with total_sources = 0 when the call raised.
C27_GroqSearchAlwaysReturns ==
    hp.groq.outcome # "none"
    => /\ hp.groq.calls = 1
       /\ hp.groq.waited <= 10
       /\ pc \notin {"hc_groq", "hy_groq"}
       /\ "groq" \in Range(hp.returned)
       /\ hp.groq.outcome = "timeout"
          => /\ hp.groq.summary = "Buscas Groq com timeout - usando fallback"
             /\ hp.groq.total_sources = 10
       /\ hp.groq.outcome = "raised"
          => /\ hp.groq.summary = "Erro nas buscas Groq"
             /\ hp.groq.total_sources = 0

C27_Witness ==
    /\ pc = "hy_analyze"
    /\ hp.groq.outcome = "timeout"
    /\ hp.groq.waited = GroqTimeout

\* C30: the FinalResponse delivered in a 'final' event, on the success path,
\* the degraded paths and the failed path alike, has a non-empty disclaimer
\* and an overall_confidence within [0,1].
C30_DeliveredResponseWellFormed ==
    (events # <<>> /\ events[Len(events)] = "final")
    => LET delivered == IF use_hybrid THEN app.final_result ELSE app.final_state
       IN  /\ IsResponse(delivered)
           /\ delivered.disclaimer # ""
           /\ delivered.overall_confidence >= 0
           /\ delivered.overall_confidence <= 100

C30_Witness ==
    /\ use_hybrid
    /\ events # <<>>
    /\ events[Len(events)] = "final"
    /\ app.final_result.status = "completed"
    /\ app.final_result.overall_confidence = 50
    /\ app.final_result.disclaimer = HybridDisclaimer

\* C25: parse_decision_response sets a source flag to false only if its
\* label is followed by NAO, to true when the label is missing or followed by
\* anything but SIM or NAO, and its confidence is within [0,1].
C25_DecisionFailsOpen ==
    pc = "parsed"
    => /\ hp.decision.needs_vectordb <=> hp.decision_text.vectordb # "NAO"
       /\ hp.decision.needs_lexml <=> hp.decision_text.lexml # "NAO"
       /\ hp.decision.needs_web <=> hp.decision_text.web # "NAO"
       /\ hp.decision.needs_jurisprudence <=> hp.decision_text.jurisprudencia # "NAO"
       /\ hp.decision.confidence >= 0
       /\ hp.decision.confidence <= 100

C25_Witness ==
    /\ pc = "parsed"
    /\ hp.decision_text.vectordb = "absent"
    /\ hp.decision_text.lexml = "TALVEZ"
    /\ hp.decision_text.web = "NAO"
    /\ hp.decision_text.confianca = "1.5"
    /\ hp.decision.needs_vectordb
    /\ hp.decision.needs_lexml
    /\ ~hp.decision.needs_web
    /\ hp.decision.confidence = 100

\* C29: a FinalResponse is constructed only from a summary of at least 2
\* sentences and 100 to 15000 characters whose distinct words are at least a
\* quarter of its words when it has 10 words or more; a single sentence of
\* three words raises a validation error.
C29_FinalResponseConstraints ==
    pc = "constructed"
    => /\ IsResponse(hp.response)
          => /\ hp.stats.sentences >= 2
             /\ hp.stats.chars >= 100
             /\ hp.stats.chars <= 15000
             /\ hp.stats.words >= 10 => 4 * hp.stats.unique >= hp.stats.words
       /\ (hp.stats.sentences = 1 /\ hp.stats.words = 3) => hp.response = ValidationError

C29_Witness ==
    /\ pc = "constructed"
    /\ hp.stats = TextStats(12, 1, 3, 3)
    /\ hp.response = ValidationError

\* C28: when OPENROUTER_API_KEY is missing and GROQ_API_KEY is present (and
\* the embeddings were built), start-up completes: no import fails, and once
\* the system is started the synthesis agent is built on Groq and the graph
\* is loaded.
C28_SecondaryProviderStartup ==
    (~boot.keys.openrouter /\ boot.keys.groq /\ boot.EMBEDDINGS = "built")
    => /\ pc # "import_failed"
       /\ pc = "started" => (boot.synthesizer_agent = "groq" /\ boot.system = "success")

\* C31: a failure of the observability sink changes nothing of how a run
\* ends: a run whose FinalResponse was obtained ends with the 'final' event,
\* as it does with a healthy sink, also when the sink raised.
C31_SinkFailureKeepsOutcome ==
    (/\ pc = "done"
     /\ env.sinkRaised
     /\ IsResponse(IF use_hybrid THEN app.final_result ELSE app.final_state))
    => /\ events # <<>>
       /\ events[Len(events)] = "final"

\* C33: once a run has emitted its terminal event, the status of its query is
\* completed or failed, never pending.
C33_QueryStatusLeavesPending ==
    (/\ app.query_status # "none"
     /\ events # <<>>
     /\ Terminal(events[Len(events)]))
    => app.query_status \in {"completed", "failed"}

\* C38: in hybrid mode, when the graph has ended with a non-empty document
\* list whose documents are all discarded for their short content and the
\* sink is healthy, the run goes on to the hybrid pipeline with zero
\* processed documents: it is not ended by an exception.
C38_AllDocsDiscardedStillProceeds ==
    (/\ use_hybrid
     /\ graph = "ended"
     /\ pc # "after_graph"
     /\ ~env.sinkRaised
     /\ Truthy(state.retrieved_docs)
     /\ CountLong(state.retrieved_docs.items) = 0)
    => /\ pc # "except"
       /\ app.processed_docs = 0
       /\ pc = "done" => "final" \in Range(events) \/ ~IsResponse(app.final_result)

\* C37: in hybrid mode the graph stops before its synthesize node, and the
\* synthesis pipeline is entered at most once for the query, exactly once
\* when the run has emitted 'final'.
C37_PipelineOncePerHybridQuery ==
    use_hybrid
    => /\ NODE_SYNTHESIZE \notin Range(visited)
       /\ app.pipeline_runs <= 1
       /\ "final" \in Range(events) => app.pipeline_runs = 1

\* C34: the graph has no cycle: no node is entered twice in a run, a run
\* enters at most 7 nodes, and the loop over the graph's events is never
\* left at its event cap before the graph has ended.
C34_EachNodeAtMostOnce ==
    /\ \A i, j \in DOMAIN visited : visited[i] = visited[j] => i = j
    /\ Len(visited) <= 7
    /\ Len(visited) < EventCap
    /\ graph # "abandoned"
    /\ pc = "after_graph" /\ graph = "ended" => visited[Len(visited)] = NODE_SYNTHESIZE

C34_Witness ==
    /\ graph = "ended"
    /\ Len(visited) = 7
    /\ NODE_TRANSFORM \in Range(visited)
    /\ NODE_WEB_SEARCH \in Range(visited)
    /\ pc = "after_graph"

\* the keys of the state each node returns in its update
NodeKeys(n) ==
    CASE n = NODE_RETRIEVE -> {"retrieved_docs"}
      [] n = NODE_GRADE -> {"grade"}
      [] n = NODE_TRANSFORM -> {"current_query", "transformed_query"}
      [] n = NODE_LEXML -> {"lexml_results", "needs_jurisprudencia"}
      [] n = NODE_EVALUATE -> {"needs_web_search", "web_search_reasoning",
                               "web_search_query", "evaluation_complete"}
      [] n = NODE_WEB_SEARCH -> {"tavily_results", "web_search_performed",
                                 "web_search_skipped", "web_search_error"}
      [] n = NODE_SYNTHESIZE -> {"final_response", "error"}
      [] n = NODE_ERROR -> {"final_response", "error"}

\* C35: a step of a node changes only the node's own keys of the state:
\* every other key, query included, keeps its value; and outside the nodes
\* nothing changes the state.
C35_NodesWriteOwnKeys ==
    [][/\ \A n \in Nodes :
            pc = n => \A k \in DOMAIN state \ NodeKeys(n) : state'[k] = state[k]
       /\ pc \in {"hc_return", "simulation_fallback"}
            => \A k \in DOMAIN state \ NodeKeys(NODE_SYNTHESIZE) : state'[k] = state[k]
       /\ pc \notin Nodes \cup {"hc_return", "simulation_fallback"} => state' = state
       /\ DOMAIN state' = DOMAIN state]_vars

C35_Witness ==
    /\ pc = "after_graph"
    /\ graph = "ended"
    /\ state.query = InitialState.query
    /\ Truthy(state.retrieved_docs)
    /\ state.grade = "irrelevant"
    /\ state.current_query = "rewritten"
    /\ Truthy(state.lexml_results)
    /\ state.web_search_reasoning = "decision_reasoning"
    /\ state.web_search_performed = PyTrue
    /\ IsResponse(state.final_response)
    /\ state.error = PyNone

\* C36: when the hybrid generator yields its 'final' step, a completed
\* FinalResponse has as summary the payloads of the 'streaming' steps yielded
\* before it, in order, and a failed one has the fixed error summary, whatever
\* was streamed and whatever the exception was.
C36_FinalIsConcatenationOfStream ==
    (pc = "app_final" /\ IsResponse(app.final_result))
    => /\ app.final_result.status = "completed"
          => app.final_result.summary = hp.streamed
       /\ app.final_result.status = "failed"
          => app.final_result.summary = <<"integrated_failure">>

====
